---- MODULE Spec2Model ----
(***************************************************************************)
(* Healthcare ticketing chatbot: the templated analysis/response pipeline  *)
(* (backend/services/aiService.js), the remote enhancement fallback        *)
(* (backend/services/gptService.js, enhancedAIService.js) and the ticket   *)
(* routes that append the delayed AI reply (routes/tickets.js).            *)
(*                                                                         *)
(* Text is modelled at character level: a message and a token are          *)
(* sequences of one-character strings, so that tokenizing, lower-casing    *)
(* and the entity patterns are computed rather than looked up.  A response *)
(* text is a sequence of chunks: literal pieces of the template and the    *)
(* joined token lists the template interpolates.                           *)
(***************************************************************************)
EXTENDS Integers, Sequences, FiniteSets, TLC

VARIABLES
  now,                   \* Date.now(), in minutes since module load
  nextSweep,             \* due time of the context-cleanup interval timer
  conversationContexts,  \* aiService.js: Map userId -> {history, lastInteraction}
  calls,                 \* number of generateAIResponse calls made so far
  req,                   \* arguments of the pending generateAIResponse call
  lastGen,               \* what the last generateAIResponse call computed and returned
  lastSweep,             \* what the last cleanup sweep saw and did
  apiKey,                \* gptService.js: process.env.OPENAI_API_KEY as read at load
  openai,                \* gptService.js: TRUE iff the client was constructed at load
  lastEnhance,           \* what the last enhanceResponseWithGpt call was given and returned
  tickets,               \* persisted Ticket documents, by id
  timers,                \* the scheduled AI-reply callbacks that have not run yet
  lastOp,                \* the last ticket request or callback and its outcome
  feedbackStore,         \* aiService.js: Map `${userId}:${messageId}` -> feedback record
  feedbackLog,           \* history: the recordFeedback calls made so far, in order
  lastFeedback,          \* the last recordFeedback call and what it returned
  lastAnalysis           \* what analyzeFeedback returned, if called since the last record

vars == <<now, nextSweep, conversationContexts, calls, req, lastGen, lastSweep,
          apiKey, openai, lastEnhance, tickets, timers, lastOp,
          feedbackStore, feedbackLog, lastFeedback, lastAnalysis>>

\* the clock and the cleanup timer
clockVars == <<now, nextSweep, lastSweep>>

\* what the response service keeps and returns
serviceVars == <<conversationContexts, lastGen>>

\* the ticket collection and its pending callbacks
ticketVars == <<tickets, timers, lastOp>>

\* the feedback store and what its callers saw
feedbackVars == <<feedbackStore, feedbackLog, lastFeedback, lastAnalysis>>

(***************************************************************************)
(* Characters, String.prototype.toLowerCase and natural.WordTokenizer      *)
(***************************************************************************)
UpperCase == <<"A","B","C","D","E","F","G","H","I","J","K","L","M",
               "N","O","P","Q","R","S","T","U","V","W","X","Y","Z">>

LowerCase == <<"a","b","c","d","e","f","g","h","i","j","k","l","m",
               "n","o","p","q","r","s","t","u","v","w","x","y","z">>

Digits == {"0","1","2","3","4","5","6","7","8","9"}

Range(s) == { s[i] : i \in DOMAIN s }

\* \w of the entity patterns; also the characters WordTokenizer keeps
WordChars == Range(UpperCase) \cup Range(LowerCase) \cup Digits \cup {"_"}

IsWordChar(c) == c \in WordChars

\* String.prototype.toLowerCase on the letters A-Z
LowerOf == [c \in Range(UpperCase) |-> LowerCase[CHOOSE i \in DOMAIN UpperCase : UpperCase[i] = c]]

ToLowerChar(c) == IF c \in DOMAIN LowerOf THEN LowerOf[c] ELSE c

ToLowerCase(s) == [i \in DOMAIN s |-> ToLowerChar(s[i])]

\* tokenizer.tokenize: split on runs of non-word characters, drop empty pieces
RECURSIVE TokenizeFrom(_, _, _)
TokenizeFrom(s, i, cur) ==
  IF i > Len(s)
  THEN IF cur = <<>> THEN <<>> ELSE <<cur>>
  ELSE IF IsWordChar(s[i])
       THEN TokenizeFrom(s, i + 1, Append(cur, s[i]))
       ELSE IF cur = <<>>
            THEN TokenizeFrom(s, i + 1, <<>>)
            ELSE <<cur>> \o TokenizeFrom(s, i + 1, <<>>)

Tokenize(s) == TokenizeFrom(s, 1, <<>>)

(***************************************************************************)
(* analyzeMessage: the word lists of the urgency check and entity patterns *)
(***************************************************************************)
urgentTerms ==
  { <<"e","m","e","r","g","e","n","c","y">>,
    <<"u","r","g","e","n","t">>,
    <<"i","m","m","e","d","i","a","t","e","l","y">>,
    <<"s","e","v","e","r","e">>,
    <<"c","r","i","t","i","c","a","l">>,
    <<"h","e","l","p">>,
    <<"n","o","w">>,
    <<"a","s","a","p">> }

MedicationWords ==
  { <<"p","i","l","l">>,
    <<"m","e","d","i","c","a","t","i","o","n">>,
    <<"m","e","d","i","c","i","n","e">>,
    <<"p","r","e","s","c","r","i","p","t","i","o","n">>,
    <<"d","r","u","g">>,
    <<"d","o","s","e">>,
    <<"t","a","b","l","e","t">>,
    <<"c","a","p","s","u","l","e">>,
    <<"a","n","t","i","b","i","o","t","i","c">>,
    <<"i","n","h","a","l","e","r">>,
    <<"i","n","s","u","l","i","n">>,
    <<"i","n","j","e","c","t","i","o","n">> }

SymptomStems ==
  { <<"p","a","i","n">>,
    <<"a","c","h","e">>,
    <<"f","e","v","e","r">>,
    <<"c","o","u","g","h">>,
    <<"h","e","a","d","a","c","h","e">>,
    <<"n","a","u","s","e","a">>,
    <<"d","i","z","z">>,
    <<"s","w","e","l","l","i","n","g">>,
    <<"r","a","s","h">>,
    <<"f","a","t","i","g","u","e">>,
    <<"t","i","r","e","d">>,
    <<"e","x","h","a","u","s","t","e","d">>,
    <<"v","o","m","i","t">>,
    <<"d","i","a","r","r","h","e","a">>,
    <<"c","o","n","s","t","i","p","a","t","i","o","n">>,
    <<"b","l","e","e","d">>,
    <<"b","r","e","a","t","h">>,
    <<"n","u","m","b">>,
    <<"i","t","c","h">>,
    <<"b","u","r","n">>,
    <<"s","o","r","e">> }

ConditionStems ==
  { <<"d","i","a","b","e","t">>,
    <<"h","y","p","e","r","t","e","n","s","i","o","n">>,
    <<"a","s","t","h","m","a">>,
    <<"a","r","t","h","r","i","t","i","s">>,
    <<"d","e","p","r","e","s","s","i","o","n">>,
    <<"a","n","x","i","e","t","y">>,
    <<"a","l","l","e","r","g">>,
    <<"c","a","n","c","e","r">>,
    <<"h","e","a","r","t">>,
    <<"s","t","r","o","k","e">>,
    <<"i","n","f","e","c","t","i","o","n">>,
    <<"d","i","s","e","a","s","e">>,
    <<"d","i","s","o","r","d","e","r">>,
    <<"s","y","n","d","r","o","m","e">> }

BodyPartWords ==
  { <<"h","e","a","d">>,
    <<"c","h","e","s","t">>,
    <<"a","r","m">>,
    <<"l","e","g">>,
    <<"f","o","o","t">>,
    <<"h","a","n","d">>,
    <<"b","a","c","k">>,
    <<"n","e","c","k">>,
    <<"s","h","o","u","l","d","e","r">>,
    <<"k","n","e","e">>,
    <<"a","n","k","l","e">>,
    <<"w","r","i","s","t">>,
    <<"s","t","o","m","a","c","h">>,
    <<"t","h","r","o","a","t">>,
    <<"e","a","r">>,
    <<"e","y","e">>,
    <<"n","o","s","e">>,
    <<"s","k","i","n">>,
    <<"h","e","a","r","t">>,
    <<"l","u","n","g">>,
    <<"l","i","v","e","r">>,
    <<"k","i","d","n","e","y">> }

\* position k lies between tok[k] and tok[k+1]; \b holds there iff exactly one side is a word character
IsWordAt(tok, k) == k \in DOMAIN tok /\ IsWordChar(tok[k])

WordBoundary(tok, k) == IsWordAt(tok, k) # IsWordAt(tok, k + 1)

\* the literal w occurs in tok starting at position p (the patterns carry the i flag)
MatchesAt(tok, p, w) ==
  /\ p + Len(w) - 1 <= Len(tok)
  /\ \A j \in DOMAIN w : ToLowerChar(tok[p + j - 1]) = w[j]

\* /\b(w1|w2|...)\w*\b/i.test(tok): after the stem, \w* runs to the end of the word
MatchesStem(tok, stems) ==
  \E p \in DOMAIN tok : \E w \in stems :
    WordBoundary(tok, p - 1) /\ MatchesAt(tok, p, w)

\* /\b(w1|w2|...)s?\b/i.test(tok)
MatchesWord(tok, words) ==
  \E p \in DOMAIN tok : \E w \in words :
    /\ WordBoundary(tok, p - 1)
    /\ MatchesAt(tok, p, w)
    /\ LET e == p + Len(w) - 1
       IN  \/ WordBoundary(tok, e)
           \/ /\ e + 1 <= Len(tok)
              /\ ToLowerChar(tok[e + 1]) = "s"
              /\ WordBoundary(tok, e + 1)

AllDigits(tok, from, to) ==
  /\ to <= Len(tok)
  /\ \A j \in from..to : tok[j] \in Digits

IsDateSep(tok, k) == k \in DOMAIN tok /\ tok[k] \in {"/", "-"}

\* /\b\d{1,2}[\/\-]\d{1,2}([\/\-]\d{2,4})?\b/.test(tok)
MatchesDate(tok) ==
  \E p \in DOMAIN tok : \E a \in 1..2 : \E b \in 1..2 :
    /\ WordBoundary(tok, p - 1)
    /\ AllDigits(tok, p, p + a - 1)
    /\ IsDateSep(tok, p + a)
    /\ AllDigits(tok, p + a + 1, p + a + b)
    /\ LET e == p + a + b
       IN  \/ WordBoundary(tok, e)
           \/ \E c \in 2..4 :
                /\ IsDateSep(tok, e + 1)
                /\ AllDigits(tok, e + 2, e + 1 + c)
                /\ WordBoundary(tok, e + 1 + c)

IsDate(tok) == MatchesDate(tok)
IsMedication(tok) == MatchesWord(tok, MedicationWords)
IsSymptom(tok) == MatchesStem(tok, SymptomStems)
IsMedicalCondition(tok) == MatchesStem(tok, ConditionStems)
IsBodyPart(tok) == MatchesWord(tok, BodyPartWords)

\* an extraction that puts a token into the list of one kind only
ExtractEntities_OneKind(tokens) ==
  [ dates             |-> SelectSeq(tokens, IsDate),
    medications       |-> SelectSeq(tokens, IsMedication),
    symptoms          |-> SelectSeq(tokens, IsSymptom),
    medicalConditions |-> SelectSeq(tokens, IsMedicalCondition),
    bodyParts         |-> SelectSeq(tokens, LAMBDA t : IsBodyPart(t) /\ ~IsMedicalCondition(t)) ]

\* entities: each list is tokens.filter(pattern.test)
ExtractEntities(tokens) ==
  [ dates             |-> SelectSeq(tokens, IsDate),
    medications       |-> SelectSeq(tokens, IsMedication),
    symptoms          |-> SelectSeq(tokens, IsSymptom),
    medicalConditions |-> SelectSeq(tokens, IsMedicalCondition),
    bodyParts         |-> SelectSeq(tokens, IsBodyPart) ]

(***************************************************************************)
(* The sentiment score is sentimentAnalyzer.getSentiment(tokens), the sum  *)
(* of the lexicon values divided by tokens.length.  The lexicon belongs to *)
(* the library, so the score is an input: a value in hundredths, or NaN    *)
(* (0/0) for an empty token list.  Every comparison with NaN is false.     *)
(***************************************************************************)
NaN == 100000

PositiveThreshold == 20
NegativeThreshold == -20
UrgentThreshold == -50

ScoreGt(score, t) == score # NaN /\ score > t
ScoreLt(score, t) == score # NaN /\ score < t

\* the labelling with the thresholds taken inclusively
SentimentLabel_Inclusive(score) ==
  IF score # NaN /\ score >= PositiveThreshold THEN "positive"
  ELSE IF score # NaN /\ score <= NegativeThreshold THEN "negative"
  ELSE "neutral"

SentimentLabel(score) ==
  IF ScoreGt(score, PositiveThreshold) THEN "positive"
  ELSE IF ScoreLt(score, NegativeThreshold) THEN "negative"
  ELSE "neutral"

HasUrgentTerms(tokens) == \E i \in DOMAIN tokens : tokens[i] \in urgentTerms

\* urgency that asks for an urgent term and a very negative score together
IsUrgent_Both(tokens, score) ==
  (SentimentLabel(score) = "negative" /\ ScoreLt(score, UrgentThreshold))
    /\ HasUrgentTerms(tokens)

IsUrgent(tokens, score) ==
  (SentimentLabel(score) = "negative" /\ ScoreLt(score, UrgentThreshold))
    \/ HasUrgentTerms(tokens)

\* analyzeMessage; intent is classifier.classify(message), an input.  The
\* stemmed tokens are returned by the code as well and read by nobody.
AnalyzeMessage(message, score, intent) ==
  LET tokens == Tokenize(ToLowerCase(message))
  IN  [ intent    |-> intent,
        entities  |-> ExtractEntities(tokens),
        tokens    |-> tokens,
        sentiment |-> [ score    |-> score,
                        label    |-> SentimentLabel(score),
                        isUrgent |-> IsUrgent(tokens, score) ] ]

(***************************************************************************)
(* generateAIResponse: the response templates                              *)
(***************************************************************************)
\* a literal piece of a template
Lit(s) == [kind |-> "lit", lit |-> s, sep |-> "", items |-> <<>>]

\* `${list.join(sep)}`
Join(items, s) == [kind |-> "join", lit |-> "", sep |-> s, items |-> items]

\* analysis.tokens.slice(0, 3)
FirstTokens(tokens) == SubSeq(tokens, 1, IF Len(tokens) < 3 THEN Len(tokens) ELSE 3)

\* responses.general
GeneralResponses(analysis) ==
  << <<Lit("Thank you for your general healthcare inquiry. I understand you're asking about ")>>
       \o <<Join(FirstTokens(analysis.tokens), " ")>>
       \o <<Lit("... A "), Lit("healthcare provider"), Lit(" will review your case soon.")>>,
     <<Lit("I've noted your question about general healthcare matters. While I can provide basic information, a human "), Lit("healthcare provider"), Lit(" will follow up with more specific guidance about ")>>
       \o <<Join(FirstTokens(analysis.tokens), " ")>>
       \o <<Lit("...")>> >>

\* responses.appointment
AppointmentResponses(analysis) ==
  << <<Lit("I see you have a question about appointments")>>
       \o (IF Len(analysis.entities.dates) > 0 THEN <<Lit(" on "), Join(analysis.entities.dates, ", ")>> ELSE <<>>)
       \o <<Lit(". I can help with basic scheduling information, but a staff member will need to confirm any changes to your appointments.")>>,
     <<Lit("Thank you for your appointment-related query. I've logged this in our system, and a "), Lit("healthcare provider"), Lit(" will assist you with scheduling")>>
       \o (IF Len(analysis.entities.dates) > 0 THEN <<Lit(" for "), Join(analysis.entities.dates, ", ")>> ELSE <<>>)
       \o <<Lit(".")>> >>

\* the prescription templates with the generic wording in every case
PrescriptionResponses_Generic(analysis) ==
  << <<Lit("I understand you have a question about your "), Lit("prescription"),
       Lit(". For patient safety, a "), Lit("healthcare provider"), Lit(" will need to review your medication request.")>>,
     <<Lit("Thank you for your prescription inquiry. While I cannot provide medical advice, I've prioritized your request about "),
       Lit("your medication"),
       Lit(" for review by a qualified "), Lit("healthcare provider"), Lit(".")>> >>

\* responses.prescription
PrescriptionResponses(analysis) ==
  << <<Lit("I understand you have a question about your ")>>
       \o (IF Len(analysis.entities.medications) > 0 THEN <<Join(analysis.entities.medications, ", ")>> ELSE <<Lit("prescription")>>)
       \o <<Lit(". For patient safety, a "), Lit("healthcare provider"), Lit(" will need to review your medication request.")>>,
     <<Lit("Thank you for your prescription inquiry. While I cannot provide medical advice, I've prioritized your request about ")>>
       \o (IF Len(analysis.entities.medications) > 0 THEN <<Join(analysis.entities.medications, ", ")>> ELSE <<Lit("your medication")>>)
       \o <<Lit(" for review by a qualified "), Lit("healthcare provider"), Lit(".")>> >>

\* responses.billing
BillingResponses(analysis) ==
  << <<Lit("I see your question is about billing. I've recorded your concern, and a billing specialist will review your account and respond shortly.")>>,
     <<Lit("Thank you for your billing inquiry. Your financial questions are important to us, and a team member will address your concerns about ")>>
       \o <<Join(FirstTokens(analysis.tokens), " ")>>
       \o <<Lit("... soon.")>> >>

\* responses.technical
TechnicalResponses(analysis) ==
  << <<Lit("I understand you're experiencing technical difficulties with ")>>
       \o <<Join(FirstTokens(analysis.tokens), " ")>>
       \o <<Lit("... I've logged this issue, and our technical support team will help resolve it.")>>,
     <<Lit("Thank you for reporting this technical issue. Our IT team will review your case about ")>>
       \o <<Join(FirstTokens(analysis.tokens), " ")>>
       \o <<Lit("... and provide assistance shortly.")>> >>

\* responses.symptoms
SymptomsResponses(analysis) ==
  << <<Lit("I notice you mentioned ")>>
       \o <<Join(analysis.entities.symptoms, ", ")>>
       \o <<Lit(". While I can't provide medical advice, a healthcare professional will review your symptoms and respond soon.")>>,
     <<Lit("Thank you for sharing information about your ")>>
       \o <<Join(analysis.entities.symptoms, ", ")>>
       \o <<Lit(". A qualified "), Lit("healthcare provider"), Lit(" will assess this information and follow up with you shortly.")>> >>

\* responses.preventive
PreventiveResponses(analysis) ==
  << <<Lit("Thank you for your interest in preventive care. I've noted your question about ")>>
       \o <<Join(FirstTokens(analysis.tokens), " ")>>
       \o <<Lit("... A "), Lit("healthcare provider"), Lit(" will provide you with detailed preventive care information soon.")>>,
     <<Lit("I appreciate your focus on preventive healthcare. Your question about ")>>
       \o <<Join(FirstTokens(analysis.tokens), " ")>>
       \o <<Lit("... has been logged, and a healthcare professional will follow up with personalized guidance.")>> >>

\* responses.emergency
EmergencyResponses(analysis) ==
  << <<Lit("I understand you're asking about emergency care. If this is a medical emergency, please call "), Lit("911"), Lit(" immediately. A "), Lit("healthcare provider"), Lit(" will review your message as soon as possible.")>>,
     <<Lit("For emergency situations, please call "), Lit("911"), Lit(" or go to your nearest emergency room. I've flagged your message for urgent review by our healthcare team.")>> >>

\* responses.mental_health
MentalHealthResponses(analysis) ==
  << <<Lit("Thank you for reaching out about mental health services. Your wellbeing is important to us, and a mental health professional will respond to your inquiry soon.")>>,
     <<Lit("I appreciate you sharing your mental health concerns. A qualified mental health provider will review your message and follow up with support options shortly.")>> >>

\* responses.other
OtherResponses(analysis) ==
  << <<Lit("Thank you for your message. I've analyzed your request about ")>>
       \o <<Join(FirstTokens(analysis.tokens), " ")>>
       \o <<Lit("... and a healthcare team member will respond to your specific needs soon.")>>,
     <<Lit("I've received your inquiry. While I can help with basic information, a "), Lit("healthcare provider"), Lit(" will follow up with personalized assistance regarding ")>>
       \o <<Join(FirstTokens(analysis.tokens), " ")>>
       \o <<Lit("...")>> >>

\* responses.medicalConditions
MedicalConditionsResponses(analysis) ==
  << <<Lit("I see you've mentioned ")>>
       \o <<Join(analysis.entities.medicalConditions, ", ")>>
       \o <<Lit(". A "), Lit("healthcare provider"), Lit(" with expertise in this area will review your message and respond soon.")>>,
     <<Lit("Thank you for providing information about ")>>
       \o <<Join(analysis.entities.medicalConditions, ", ")>>
       \o <<Lit(". This helps us direct your inquiry to the appropriate healthcare specialist.")>> >>

BaseBuckets ==
  {"general", "appointment", "prescription", "billing", "technical",
   "symptoms", "preventive", "emergency", "mental_health", "other"}

\* the keys of the responses object: medicalConditions is added only when a
\* condition was extracted
ResponseKeys(analysis) ==
  IF Len(analysis.entities.medicalConditions) > 0
  THEN BaseBuckets \cup {"medicalConditions"}
  ELSE BaseBuckets

\* responses[key]
Responses(analysis, key) ==
  CASE key = "general"           -> GeneralResponses(analysis)
    [] key = "appointment"       -> AppointmentResponses(analysis)
    [] key = "prescription"      -> PrescriptionResponses(analysis)
    [] key = "billing"           -> BillingResponses(analysis)
    [] key = "technical"         -> TechnicalResponses(analysis)
    [] key = "symptoms"          -> SymptomsResponses(analysis)
    [] key = "preventive"        -> PreventiveResponses(analysis)
    [] key = "emergency"         -> EmergencyResponses(analysis)
    [] key = "mental_health"     -> MentalHealthResponses(analysis)
    [] key = "medicalConditions" -> MedicalConditionsResponses(analysis)
    [] OTHER                     -> OtherResponses(analysis)

\* the falsy intent/category/userId/language of the `||` and `if` tests
Undefined == ""

\* const responseCategory = analysis.intent || category
ResponseCategory(analysis, category) ==
  IF analysis.intent # Undefined THEN analysis.intent ELSE category

\* the chain with the medical-condition test ahead of the symptom test
SelectBucket_ConditionsFirst(analysis, category) ==
  LET responseCategory == ResponseCategory(analysis, category)
  IN  IF responseCategory = "emergency" \/ analysis.sentiment.isUrgent
      THEN "emergency"
      ELSE IF Len(analysis.entities.medicalConditions) > 0
      THEN "medicalConditions"
      ELSE IF Len(analysis.entities.symptoms) > 0
      THEN "symptoms"
      ELSE IF responseCategory \in ResponseKeys(analysis)
      THEN responseCategory
      ELSE "other"

\* the chain with the emergency test reading the category alone
SelectBucket_CategoryOnly(analysis, category) ==
  LET responseCategory == ResponseCategory(analysis, category)
  IN  IF responseCategory = "emergency"
      THEN "emergency"
      ELSE IF Len(analysis.entities.symptoms) > 0
      THEN "symptoms"
      ELSE IF Len(analysis.entities.medicalConditions) > 0
      THEN "medicalConditions"
      ELSE IF responseCategory \in ResponseKeys(analysis)
      THEN responseCategory
      ELSE "other"

\* the priority chain that picks categoryResponses
SelectBucket(analysis, category) ==
  LET responseCategory == ResponseCategory(analysis, category)
  IN  IF responseCategory = "emergency" \/ analysis.sentiment.isUrgent
      THEN "emergency"
      ELSE IF Len(analysis.entities.symptoms) > 0
      THEN "symptoms"
      ELSE IF Len(analysis.entities.medicalConditions) > 0
      THEN "medicalConditions"
      ELSE IF responseCategory \in ResponseKeys(analysis)
      THEN responseCategory
      ELSE "other"

UrgentNotice ==
  "I notice this seems urgent. I've flagged your message for priority review by our healthcare team. "

empathyPhrases ==
  << "I understand this may be frustrating. ",
     "I'm sorry to hear you're having difficulties. ",
     "I appreciate your patience with this matter. " >>

\* the prefix with the empathy phrase chosen for every negative message
UrgentPrefix_EmpathyWhenNegative(analysis, randomEmpathy) ==
  IF analysis.sentiment.label = "negative"
  THEN empathyPhrases[randomEmpathy]
  ELSE IF analysis.sentiment.isUrgent THEN UrgentNotice ELSE ""

\* urgentPrefix after both assignments; randomEmpathy is the phrase Math.random picked
UrgentPrefix(analysis, randomEmpathy) ==
  IF analysis.sentiment.label = "negative" /\ ~analysis.sentiment.isUrgent
  THEN empathyPhrases[randomEmpathy]
  ELSE IF analysis.sentiment.isUrgent THEN UrgentNotice ELSE ""

\* urgentPrefix + categoryResponses[randomIndex]
ComposeResponse(prefix, body) ==
  IF prefix = "" THEN body ELSE <<Lit(prefix)>> \o body

\* languageService.localizeResponse: the translated text is not known here
LocalizeResponse(response, userLanguage) ==
  << [kind |-> "localized", lit |-> userLanguage, sep |-> "", items |-> <<>>] >>

\* const userLanguage = preferredLanguage || detectedLanguage
UserLanguage(preferredLanguage, detectedLanguage) ==
  IF preferredLanguage # Undefined THEN preferredLanguage ELSE detectedLanguage

\* What one generateAIResponse call computes from the analysis of its
\* message.  a is the argument record; randomIndex and randomEmpathy are the
\* two Math.random draws.
GenerateResult(a, analysis, randomIndex, randomEmpathy) ==
  LET userLanguage == UserLanguage(a.preferredLanguage, a.detectedLanguage)
      bucket       == SelectBucket(analysis, a.category)
      prefix       == UrgentPrefix(analysis, randomEmpathy)
      response     == ComposeResponse(prefix, Responses(analysis, bucket)[randomIndex])
  IN  [ args             |-> a,
        analysis         |-> analysis,
        userLanguage     |-> userLanguage,
        responseCategory |-> ResponseCategory(analysis, a.category),
        bucket           |-> bucket,
        variant          |-> randomIndex,
        prefix           |-> prefix,
        composed         |-> response,
        response         |-> IF userLanguage # "en"
                             THEN LocalizeResponse(response, userLanguage)
                             ELSE response ]

(***************************************************************************)
(* The conversation context store                                          *)
(***************************************************************************)
MaxHistory == 10
ExpirationTime == 30
SweepInterval == 15

\* the update without the length check
UpdateConversationContext_NoTrim(store, userId, context, t) ==
  LET history == IF userId \in DOMAIN store THEN store[userId].history ELSE <<>>
  IN  [u \in DOMAIN store \cup {userId} |->
         IF u = userId
         THEN [history |-> Append(history, context), lastInteraction |-> t]
         ELSE store[u]]

\* the update with pop() in place of shift()
UpdateConversationContext_Pop(store, userId, context, t) ==
  LET history == IF userId \in DOMAIN store THEN store[userId].history ELSE <<>>
      pushed  == Append(history, context)
      trimmed == IF Len(pushed) > MaxHistory THEN SubSeq(pushed, 1, Len(pushed) - 1) ELSE pushed
  IN  [u \in DOMAIN store \cup {userId} |->
         IF u = userId
         THEN [history |-> trimmed, lastInteraction |-> t]
         ELSE store[u]]

\* updateConversationContext(userId, context) at time t
UpdateConversationContext(store, userId, context, t) ==
  LET history == IF userId \in DOMAIN store THEN store[userId].history ELSE <<>>
      pushed  == Append(history, context)
      trimmed == IF Len(pushed) > MaxHistory THEN Tail(pushed) ELSE pushed
  IN  [u \in DOMAIN store \cup {userId} |->
         IF u = userId
         THEN [history |-> trimmed, lastInteraction |-> t]
         ELSE store[u]]

\* the entry generateAIResponse hands to updateConversationContext
ContextEntry(g, t) ==
  [ message   |-> g.args.message,
    analysis  |-> g.analysis,
    language  |-> g.userLanguage,
    timestamp |-> t ]

\* the expiry test with >= in place of >
Expired_Inclusive(store, t) ==
  { u \in DOMAIN store : t - store[u].lastInteraction >= ExpirationTime }

\* the expiry test one sweep interval late
Expired_Late(store, t) ==
  { u \in DOMAIN store : t - store[u].lastInteraction > ExpirationTime + SweepInterval }

\* the expiry test one sweep interval early
Expired_Early(store, t) ==
  { u \in DOMAIN store : t - store[u].lastInteraction > ExpirationTime - SweepInterval }

\* the users the cleanup removes at time t
Expired(store, t) ==
  { u \in DOMAIN store : t - store[u].lastInteraction > ExpirationTime }

\* the body of the cleanup interval callback
SweepContexts(store, t) ==
  [u \in DOMAIN store \ Expired(store, t) |-> store[u]]

(***************************************************************************)
(* Inputs: words, messages, scores, classifier labels                      *)
(***************************************************************************)
w_emergency == <<"e","m","e","r","g","e","n","c","y">>
w_painful == <<"p","a","i","n","f","u","l">>
w_heart == <<"h","e","a","r","t">>
w_pills == <<"p","i","l","l","s">>
w_hello == <<"h","e","l","l","o">>

\* "Help NOW!", "12/05/2024", "on 3-4", "?"
SampleMessages ==
  { <<"H","e","l","p"," ","N","O","W","!">>,
    <<"1","2","/","0","5","/","2","0","2","4">>,
    <<"o","n"," ","3","-","4">>,
    <<"?">> }

MaxWords == 2

Words == {w_emergency, w_painful, w_heart, w_pills}

RECURSIVE SeqsUpTo(_, _)
SeqsUpTo(S, n) ==
  IF n = 0 THEN {<<>>}
  ELSE LET shorter == SeqsUpTo(S, n - 1)
       IN  shorter \cup { Append(s, x) : s \in { t \in shorter : Len(t) = n - 1 }, x \in S }

\* the words of ws separated by single spaces
RECURSIVE Sentence(_)
Sentence(ws) ==
  IF ws = <<>> THEN <<>>
  ELSE IF Len(ws) = 1 THEN ws[1]
  ELSE ws[1] \o <<" ">> \o Sentence(Tail(ws))

Messages == { Sentence(ws) : ws \in SeqsUpTo(Words, MaxWords) } \cup SampleMessages

\* sentiment scores in hundredths: -0.6, -0.5, -0.25, -0.2, 0, 0.2, 0.25
Scores == {-60, -50, -25, -20, 0, 20, 25}

\* getSentiment divides by tokens.length
ScoresOf(message) ==
  IF Tokenize(ToLowerCase(message)) = <<>> THEN {NaN} ELSE Scores

\* labels the classifier can return: the template keys and one label without a template
Intents == BaseBuckets \cup {"medicalConditions", "follow_up"}

\* Ticket.category enum, and a call without a category
Categories == {"general", "appointment", "prescription", "billing", "technical", "other"}

Languages == {"en", "es"}

Users == {"u1", "u2"}

\* category is read only when the classifier gives no label
IntentCategoryPairs ==
  { <<i, "general">> : i \in Intents }
    \cup { <<Undefined, c>> : c \in Categories \cup {Undefined} }

\* <<preferredLanguage, detectedLanguage>>
LanguagePairs == { <<"en", "es">>, <<Undefined, "en">>, <<Undefined, "es">> }

Args(message, score, intent, category, userId, preferredLanguage, detectedLanguage) ==
  [ message           |-> message,
    score             |-> score,
    intent            |-> intent,
    category          |-> category,
    userId            |-> userId,
    preferredLanguage |-> preferredLanguage,
    detectedLanguage  |-> detectedLanguage ]

AIArgs ==
  { Args(m, s, ic[1], ic[2], "u1", l[1], l[2]) :
      m \in Messages, s \in Scores \cup {NaN}, ic \in IntentCategoryPairs, l \in LanguagePairs }

ValidArgs == { a \in AIArgs : a.score \in ScoresOf(a.message) }

(***************************************************************************)
(* Actions of the response service                                         *)
(***************************************************************************)
MaxTime == 60
TickStep == 5
MaxCalls == 3

Min(a, b) == IF a < b THEN a ELSE b

EmptyStore == [u \in {} |-> <<>>]

\* the arguments of the calls made against the context store
CtxArgs(u) == Args(w_hello, 0, "general", "general", u, "en", "en")

\* how many messages u1 has sent by the time the exploration starts: none,
\* one short of a full history, a full history
InitialBursts == {0, MaxHistory - 1, MaxHistory}

\* the store after u1 has sent k messages at load time
RECURSIVE BurstStore(_)
BurstStore(k) ==
  IF k = 0 THEN EmptyStore
  ELSE LET a == CtxArgs("u1")
           g == GenerateResult(a, AnalyzeMessage(a.message, a.score, a.intent), 1, 1)
       IN  UpdateConversationContext(BurstStore(k - 1), "u1", ContextEntry(g, 0), 0)

\* the results one generateAIResponse(message, category, userId, preferredLanguage)
\* call can compute, over its two random draws
Generated(a) ==
  UNION { { GenerateResult(a, analysis, randomIndex, randomEmpathy) :
              randomIndex \in 1..2, randomEmpathy \in 1..3 } :
          analysis \in {AnalyzeMessage(a.message, a.score, a.intent)} }

\* the effect on the service of the call that computed g: the context update
GenerateAIResponse(a, g) ==
  conversationContexts' =
    IF a.userId # Undefined
    THEN UpdateConversationContext(conversationContexts, a.userId,
                                   ContextEntry(g, now), now)
    ELSE conversationContexts

\* the pending call runs
AIGenerate ==
  /\ req # <<>>
  /\ lastGen = <<>>
  /\ \E g \in Generated(req[1]) :
       GenerateAIResponse(req[1], g) /\ lastGen' = <<g>>
  /\ UNCHANGED <<feedbackVars, clockVars, calls, req, apiKey, openai, lastEnhance, ticketVars>>

\* a user sends a message and the service answers it
CtxGenerate ==
  /\ calls < MaxCalls
  /\ \E u \in Users : \E g \in Generated(CtxArgs(u)) :
       GenerateAIResponse(CtxArgs(u), g) /\ lastGen' = <<g>>
  /\ calls' = calls + 1
  /\ UNCHANGED <<feedbackVars, clockVars, req, apiKey, openai, lastEnhance, ticketVars>>

\* time passes, never beyond the next due sweep
Tick ==
  /\ now < nextSweep
  /\ now < MaxTime
  /\ now' = Min(Min(now + TickStep, nextSweep), MaxTime)
  /\ UNCHANGED <<feedbackVars, nextSweep, lastSweep, serviceVars, calls, req, apiKey, openai, lastEnhance, ticketVars>>

\* setInterval(() => {...}, 15 * 60 * 1000): the cleanup callback
Sweep ==
  /\ now = nextSweep
  /\ conversationContexts' = SweepContexts(conversationContexts, now)
  /\ lastSweep' = << [time |-> now, removed |-> Expired(conversationContexts, now)] >>
  /\ nextSweep' = nextSweep + SweepInterval
  /\ UNCHANGED <<feedbackVars, now, lastGen, calls, req, apiKey, openai, lastEnhance, ticketVars>>

(***************************************************************************)
(* gptService.js: the remote enhancement and its fallback                  *)
(***************************************************************************)
\* what openai.chat.completions.create can do: reject (network, auth, quota),
\* resolve without message content, resolve with blank or with real content
RemoteOutcomes == {"rejected", "no_content", "blank", "text"}

\* completion.choices[0].message.content.trim() of a remote answer with content
RemoteText(outcome) ==
  IF outcome = "text"
  THEN << [kind |-> "remote", lit |-> "enhanced", sep |-> "", items |-> <<>>] >>
  ELSE <<>>

\* values of process.env.OPENAI_API_KEY: unset, empty, and strings on both
\* sides of each test of the module's startup
NoKey == [defined |-> FALSE, value |-> <<>>]

KeyOf(value) == [defined |-> TRUE, value |-> value]

ValidKey == KeyOf(<<"s","k","-","a","b","c","d","e","f","g","h","i","j","k","l","m","n","o","p","q">>)

ApiKeys ==
  { NoKey, KeyOf(<<>>), ValidKey,
    KeyOf(<<"s","k","-","a","b","c","d","e","f","g","h","i","j","k","l","m","n","o","p">>),
    KeyOf(<<"p","k","-","a","b","c","d","e","f","g","h","i","j","k","l","m","n","o","p","q">>),
    KeyOf(<<"s","k","-","a">>),
    KeyOf(<<"y","o","u","r","-","o","p","e","n","a","i","-","a","p","i","-","k","e","y","-","g","o","e","s","-","h","e","r","e">>),
    KeyOf(<<"s","k","-","y","o","u","r","-","o","p","e","n","a","i","-","a","p","i","-","k","e","y","-","g","o","e","s","-","h","e","r","e">>),
    KeyOf(<<"s","k","-","y","o","u","r","-","o","p","e","n","a","i","-","a","p","i","-","k","e","y","-","g","o","e","s","-","h","e","r">>),
    KeyOf(<<"s","k","-","a","b","c","-","y","o","u","r","-","o","p","e","n","a","i","-","a","p","i","-","k","e","y","-","g","o","e","s","-","h","e","r","e","-","x">>) }

\* String.prototype.startsWith and String.prototype.includes
StartsWith(s, prefix) ==
  Len(prefix) <= Len(s) /\ SubSeq(s, 1, Len(prefix)) = prefix

Includes(s, part) ==
  \E i \in 1..(Len(s) - Len(part) + 1) : SubSeq(s, i, i + Len(part) - 1) = part

MinKeyLength == 20

Placeholder == <<"y","o","u","r","-","o","p","e","n","a","i","-","a","p","i","-","k","e","y","-","g","o","e","s","-","h","e","r","e">>

\* the startup without the placeholder test
LoadGptService_NoPlaceholderTest(key) ==
  IF ~key.defined \/ key.value = <<>>
  THEN [openai |-> FALSE, raised |-> FALSE]
  ELSE IF ~StartsWith(key.value, <<"s","k","-">>) \/ Len(key.value) < MinKeyLength
  THEN [openai |-> FALSE, raised |-> FALSE]
  ELSE [openai |-> TRUE, raised |-> FALSE]

\* the module's startup: the try block throws on a missing, malformed or
\* placeholder key and otherwise constructs the client; the catch logs and
\* lets nothing out.  openai: whether the client was assigned; raised: whether
\* an error left the block
LoadGptService(key) ==
  IF ~key.defined \/ key.value = <<>>
  THEN [openai |-> FALSE, raised |-> FALSE]
  ELSE IF ~StartsWith(key.value, <<"s","k","-">>) \/ Len(key.value) < MinKeyLength
  THEN [openai |-> FALSE, raised |-> FALSE]
  ELSE IF Includes(key.value, Placeholder)
  THEN [openai |-> FALSE, raised |-> FALSE]
  ELSE [openai |-> TRUE, raised |-> FALSE]

isGptAvailable == openai

\* the try block of enhanceResponseWithGpt: the awaited remote call and
\* completion.choices[0].message.content.trim(), which throws without content
TryEnhance(outcome) ==
  [ threw |-> outcome \in {"rejected", "no_content"},
    value |-> RemoteText(outcome) ]

\* the enhancement without its catch block
EnhanceResponseWithGpt_NoCatch(basicResponse, available, outcome) ==
  IF ~available
  THEN [threw |-> FALSE, value |-> basicResponse]
  ELSE TryEnhance(outcome)

\* enhanceResponseWithGpt(basicResponse, ...): threw tells whether the call
\* rejected, value is what it resolved with
EnhanceResponseWithGpt(basicResponse, available, outcome) ==
  IF ~available
  THEN [threw |-> FALSE, value |-> basicResponse]
  ELSE LET attempt == TryEnhance(outcome)
       IN  IF attempt.threw
           THEN [threw |-> FALSE, value |-> basicResponse]
           ELSE attempt

\* enhancedAIService.generateEnhancedResponse(message) returns
\* {response, analysis}; the create route reads enhancedResponse.textResponse,
\* a property the object does not have
TextResponseOf(enhancedResponse) ==
  IF "textResponse" \in DOMAIN enhancedResponse THEN enhancedResponse.textResponse ELSE <<>>

\* the templated responses handed to enhanceResponseWithGpt
BasicResponses ==
  UNION { { g.response : g \in Generated(a) } :
          a \in { Args(m, 0, i, "general", "u1", "en", "en") :
                    m \in {w_hello, w_pills, w_heart}, i \in Intents } }

\* one enhanceResponseWithGpt call on the pending arguments
Enhance ==
  /\ req # <<>>
  /\ lastEnhance = <<>>
  /\ \E outcome \in RemoteOutcomes :
       lastEnhance' = << [ basicResponse |-> req[1].basicResponse,
                           available     |-> isGptAvailable,
                           outcome       |-> outcome,
                           result        |-> EnhanceResponseWithGpt(req[1].basicResponse,
                                                                    isGptAvailable, outcome) ] >>
  /\ UNCHANGED <<feedbackVars, clockVars, serviceVars, calls, req, apiKey, openai, ticketVars>>

(***************************************************************************)
(* models/Ticket.js and routes/tickets.js                                  *)
(***************************************************************************)
StatusEnum == {"open", "in_progress", "resolved", "closed"}
PriorityEnum == {"low", "medium", "high", "urgent"}
CategoryEnum == {"general", "appointment", "prescription", "billing", "technical", "other"}

\* the users that send requests, and User.role of each
Requesters == {"u1", "u2", "p1", "a1"}

RoleOf ==
  [ u \in Requesters |->
      IF u = "p1" THEN "healthcare_provider"
      ELSE IF u = "a1" THEN "admin"
      ELSE "patient" ]

\* message.content of a user message: the text as typed
UserText(message) ==
  << [kind |-> "raw", lit |-> "", sep |-> "", items |-> <<message>>] >>

\* an element of ticket.messages
MessageDoc(sender, isAI, content, t) ==
  [sender |-> sender, isAI |-> isAI, content |-> content, timestamp |-> t]

\* new Ticket({...}) in the create route, schema defaults applied
NewTicket(title, description, category, priority, user, t) ==
  [ title       |-> title,
    description |-> description,
    status      |-> "open",
    priority    |-> IF priority # Undefined THEN priority ELSE "medium",
    category    |-> category,
    user        |-> user,
    assignedTo  |-> Undefined,
    aiResponded |-> FALSE,
    aiResponse  |-> <<>>,
    messages    |-> << MessageDoc(user, FALSE, UserText(description), t) >>,
    updatedAt   |-> t ]

\* schema validation run by save(): required paths and enums
ValidMessage(m) == m.content # <<>> /\ m.content # UserText(<<>>)

\* validation that does not check the status enum
ValidTicket_NoStatusEnum(doc) ==
  /\ doc.title # Undefined
  /\ doc.description # <<>>
  /\ doc.priority \in PriorityEnum
  /\ doc.category \in CategoryEnum
  /\ \A i \in DOMAIN doc.messages : ValidMessage(doc.messages[i])

ValidTicket(doc) ==
  /\ doc.title # Undefined
  /\ doc.description # <<>>
  /\ doc.status \in StatusEnum
  /\ doc.priority \in PriorityEnum
  /\ doc.category \in CategoryEnum
  /\ \A i \in DOMAIN doc.messages : ValidMessage(doc.messages[i])

\* the save writing the pushed messages ahead of the stored ones
Save_Prepend(stored, modified, pushed, t) ==
  [ f \in DOMAIN stored |->
      IF f = "messages" THEN pushed \o stored.messages
      ELSE IF f = "updatedAt" THEN t
      ELSE IF f \in DOMAIN modified THEN modified[f]
      ELSE stored[f] ]

\* the save setting the stored array to the pushed messages
Save_ReplaceMessages(stored, modified, pushed, t) ==
  [ f \in DOMAIN stored |->
      IF f = "messages" THEN (IF pushed = <<>> THEN stored.messages ELSE pushed)
      ELSE IF f = "updatedAt" THEN t
      ELSE IF f \in DOMAIN modified THEN modified[f]
      ELSE stored[f] ]

\* save() of a loaded document writes what changed since it was loaded: the
\* pushed messages are appended to the stored array, the modified paths are
\* set to the document's values, and the pre-save hook refreshes updatedAt
Save(stored, modified, pushed, t) ==
  [ f \in DOMAIN stored |->
      IF f = "messages" THEN stored.messages \o pushed
      ELSE IF f = "updatedAt" THEN t
      ELSE IF f \in DOMAIN modified THEN modified[f]
      ELSE stored[f] ]

\* no modified path
NoPaths == [f \in {} |-> Undefined]

\* an authorization test that admits every authenticated user
MayUpdate_Anyone(ticket, user) == TRUE

\* the authorization test of PUT /:id and GET /:id
MayUpdate(ticket, user) ==
  ~ ( /\ ticket.user # user
      /\ RoleOf[user] # "healthcare_provider"
      /\ RoleOf[user] # "admin"
      /\ (ticket.assignedTo = Undefined \/ ticket.assignedTo # user) )

\* an authorization test that also admits every healthcare provider
MayAddMessage_Providers(ticket, user) ==
  ~ ( /\ ticket.user # user
      /\ (ticket.assignedTo = Undefined \/ ticket.assignedTo # user)
      /\ RoleOf[user] # "admin"
      /\ RoleOf[user] # "healthcare_provider" )

\* the authorization test of POST /:id/message
MayAddMessage(ticket, user) ==
  ~ ( /\ ticket.user # user
      /\ (ticket.assignedTo = Undefined \/ ticket.assignedTo # user)
      /\ RoleOf[user] # "admin" )

\* user?.preferredLanguage: the User schema has no such path
StoredPreferredLanguage(user) == Undefined

PreferredLanguage(user) ==
  IF StoredPreferredLanguage(user) # Undefined THEN StoredPreferredLanguage(user) ELSE "en"

\* a scheduled setTimeout callback with what its closure reads again: the
\* ticket it pushes to, the message text, the category and the requester.
\* The captured document itself only carries the pushed message to save().
Timer(kind, id, content, category, user) ==
  [ kind     |-> kind,
    ticket   |-> id,
    content  |-> content,
    category |-> category,
    user     |-> user ]

\* the outcome of a request (its HTTP status) or of a callback (whether the
\* AI message was appended; status 0)
Op(op, status, user, id, appended) ==
  << [op |-> op, status |-> status, user |-> user, ticket |-> id, appended |-> appended] >>

Http(op, status, user, id) == Op(op, status, user, id, FALSE)

\* s without its k-th element
RemoveAt(s, k) == SubSeq(s, 1, k - 1) \o SubSeq(s, k + 1, Len(s))

MaxTickets == 1
MaxMessages == 2

\* the number of user messages persisted so far, over all tickets
RECURSIVE UserMessages(_)
UserMessages(ts) ==
  IF ts = <<>> THEN 0
  ELSE Len(SelectSeq(ts[1].messages, LAMBDA m : ~m.isAI)) + UserMessages(Tail(ts))

\* the ids a request can name: the stored tickets and one that does not exist
TicketIds == 1..(Len(tickets) + 1)

\* what the requests of the ticket routes carry
TicketMessages == {w_hello}

\* the arguments of the generateAIResponse call a callback makes
TicketArgs(content, category, user, preferredLanguage) ==
  Args(content, 0, "general", category, user, preferredLanguage, "en")

\* POST /api/tickets
CreateTicket ==
  /\ Len(tickets) < MaxTickets
  /\ UserMessages(tickets) < MaxMessages
  /\ \E user \in {"u1"} : \E description \in TicketMessages \cup {<<>>} :
     \E category \in {"general", "symptoms"} :
     \E priority \in {Undefined, "low"} :
       LET newTicket == NewTicket("Help", description, category, priority, user, now)
           id        == Len(tickets) + 1
       IN  IF ValidTicket(newTicket)
           THEN /\ tickets' = Append(tickets, newTicket)
                /\ timers' = Append(timers,
                               Timer("create", id, description, category, user))
                /\ lastOp' = Http("POST /", 200, user, id)
           ELSE /\ lastOp' = Http("POST /", 500, user, 0)
                /\ UNCHANGED <<tickets, timers>>
  /\ UNCHANGED <<feedbackVars, clockVars, serviceVars, calls, req, apiKey, openai, lastEnhance>>

\* a callback whose save stores the AI message twice
CallbackSave_Twice(k, aiResponse, modified) ==
  LET timer == timers[k]
      aiMsg == MessageDoc(Undefined, TRUE, aiResponse, now)
  IN  /\ timers' = RemoveAt(timers, k)
      /\ IF ValidMessage(aiMsg)
         THEN /\ tickets' = [tickets EXCEPT ![timer.ticket] =
                               Save(@, modified, <<aiMsg, aiMsg>>, now)]
              /\ lastOp' = Op(timer.kind, 0, timer.user, timer.ticket, TRUE)
         ELSE /\ lastOp' = Op(timer.kind, 0, timer.user, timer.ticket, FALSE)
              /\ UNCHANGED tickets

\* the save at the end of a callback: the pushed AI message is validated and,
\* if valid, appended to the stored ticket together with the modified paths;
\* a validation failure is caught and logged
CallbackSave(k, aiResponse, modified) ==
  LET timer == timers[k]
      aiMsg == MessageDoc(Undefined, TRUE, aiResponse, now)
  IN  /\ timers' = RemoveAt(timers, k)
      /\ IF ValidMessage(aiMsg)
         THEN /\ tickets' = [tickets EXCEPT ![timer.ticket] =
                               Save(@, modified, <<aiMsg>>, now)]
              /\ lastOp' = Op(timer.kind, 0, timer.user, timer.ticket, TRUE)
         ELSE /\ lastOp' = Op(timer.kind, 0, timer.user, timer.ticket, FALSE)
              /\ UNCHANGED tickets

\* ticket.aiResponded = true; ticket.aiResponse = aiResponse
AiPaths(aiResponse) == [aiResponded |-> TRUE, aiResponse |-> aiResponse]

\* the setTimeout callback of POST /api/tickets
CreateCallback ==
  /\ \E k \in DOMAIN timers :
       /\ timers[k].kind = "create"
       /\ LET timer == timers[k]
              preferredLanguage == PreferredLanguage(timer.user)
          IN  IF isGptAvailable
              THEN \* generateEnhancedAIResponse(description, ...) passes the message only
                   LET a == TicketArgs(timer.content, Undefined, Undefined, Undefined)
                   IN  \E g \in Generated(a) :
                         /\ GenerateAIResponse(a, g)
                         /\ \E aiResponse \in {TextResponseOf([response |-> g.response,
                                                                analysis |-> g.analysis])} :
                              CallbackSave(k, aiResponse, AiPaths(aiResponse))
              ELSE LET a == TicketArgs(timer.content, timer.category, timer.user,
                                       preferredLanguage)
                   IN  \E g \in Generated(a) :
                         /\ GenerateAIResponse(a, g)
                         /\ CallbackSave(k, g.response, AiPaths(g.response))
  /\ UNCHANGED <<feedbackVars, clockVars, lastGen, calls, req, apiKey, openai, lastEnhance>>

\* req.body.status of an update: absent, a status of the schema, one outside it
UpdateStatuses == {Undefined, "closed", "archived"}

\* PUT /api/tickets/:id, sent by one of users with req.body.assignedTo one of
\* assignees
UpdateTicketWith(users, assignees) ==
  /\ \E user \in users : \E id \in TicketIds :
     \E status \in UpdateStatuses :
     \E priority \in {Undefined, "low"} :
     \E assignedTo \in assignees :
       IF id \notin DOMAIN tickets
       THEN /\ lastOp' = Http("PUT /:id", 404, user, id)
            /\ UNCHANGED tickets
       ELSE IF ~MayUpdate(tickets[id], user)
       THEN /\ lastOp' = Http("PUT /:id", 401, user, id)
            /\ UNCHANGED tickets
       ELSE LET ticket   == tickets[id]
                mayAssign == assignedTo # Undefined
                               /\ RoleOf[user] \in {"healthcare_provider", "admin"}
                doc      == [ ticket EXCEPT
                                !.status     = IF status # Undefined THEN status ELSE @,
                                !.priority   = IF priority # Undefined THEN priority ELSE @,
                                !.assignedTo = IF mayAssign THEN assignedTo ELSE @ ]
            IN  IF ValidTicket(doc)
                THEN /\ tickets' = [tickets EXCEPT ![id] =
                                      Save(@, [status |-> doc.status, priority |-> doc.priority,
                                               assignedTo |-> doc.assignedTo], <<>>, now)]
                     /\ lastOp' = Http("PUT /:id", 200, user, id)
                ELSE /\ lastOp' = Http("PUT /:id", 500, user, id)
                     /\ UNCHANGED tickets
  /\ UNCHANGED <<feedbackVars, clockVars, serviceVars, calls, req, apiKey, openai, lastEnhance, timers>>

\* POST /api/tickets/:id/message, sent by one of users with one of contents,
\* while fewer than limit user messages are persisted
AddMessageWith(users, contents, limit) ==
  /\ \E user \in users : \E id \in TicketIds :
     \E content \in contents :
       IF content = <<>>
       THEN /\ lastOp' = Http("POST /:id/message", 400, user, id)
            /\ UNCHANGED <<tickets, timers>>
       ELSE IF id \notin DOMAIN tickets
       THEN /\ lastOp' = Http("POST /:id/message", 404, user, id)
            /\ UNCHANGED <<tickets, timers>>
       ELSE IF ~MayAddMessage(tickets[id], user)
       THEN /\ lastOp' = Http("POST /:id/message", 401, user, id)
            /\ UNCHANGED <<tickets, timers>>
       ELSE LET ticket  == tickets[id]
                userMsg == MessageDoc(user, FALSE, UserText(content), now)
                doc     == [ ticket EXCEPT
                               !.messages = Append(@, userMsg),
                               !.status   = IF @ = "closed" THEN "reopened" ELSE @ ]
            IN  /\ UserMessages(tickets) < limit
                /\ IF ValidTicket(doc)
                   THEN /\ tickets' = [tickets EXCEPT ![id] =
                                         Save(@, [status |-> doc.status], <<userMsg>>, now)]
                        /\ timers' = Append(timers,
                                       Timer("message", id, content, ticket.category, user))
                        /\ lastOp' = Http("POST /:id/message", 200, user, id)
                   ELSE /\ lastOp' = Http("POST /:id/message", 500, user, id)
                        /\ UNCHANGED <<tickets, timers>>
  /\ UNCHANGED <<feedbackVars, clockVars, serviceVars, calls, req, apiKey, openai, lastEnhance>>

\* the setTimeout callback of POST /api/tickets/:id/message
MessageCallback ==
  /\ \E k \in DOMAIN timers :
       /\ timers[k].kind = "message"
       /\ LET timer == timers[k]
              a     == TicketArgs(timer.content, timer.category, timer.user,
                                  PreferredLanguage(timer.user))
          IN  \E g \in Generated(a) : \E outcome \in RemoteOutcomes :
                /\ GenerateAIResponse(a, g)
                /\ IF isGptAvailable
                   THEN LET enhanced == EnhanceResponseWithGpt(g.response, isGptAvailable, outcome)
                        IN  CallbackSave(k, enhanced.value, NoPaths)
                   ELSE CallbackSave(k, g.response, NoPaths)
  /\ UNCHANGED <<feedbackVars, clockVars, lastGen, calls, req, apiKey, openai, lastEnhance>>

\* the requests of the ticket's owner and of another patient
TicketUsers == {"u1", "u2"}

UpdateTicketBy(users) == UpdateTicketWith(users, {Undefined, "p1"})

UpdateTicket == UpdateTicketBy(TicketUsers)

\* the outcome of a read request: its HTTP status and, by id, the tickets of
\* the JSON body in their order
ReadOp(op, status, user, id, body) ==
  << [op |-> op, status |-> status, user |-> user, ticket |-> id,
      appended |-> FALSE, body |-> body] >>

\* everything find() returns
VisibleTo_All(user) == DOMAIN tickets

\* Ticket.find() for a healthcare provider or admin, Ticket.find({ user:
\* req.user.id }) for anyone else
VisibleTo(user) ==
  IF RoleOf[user] = "healthcare_provider" \/ RoleOf[user] = "admin"
  THEN DOMAIN tickets
  ELSE { id \in DOMAIN tickets : tickets[id].user = user }

\* .sort({ updatedAt: -1 }): the orders of ids with updatedAt not increasing
FindSorted(ids) ==
  { s \in [1..Cardinality(ids) -> ids] :
      /\ \A i, j \in DOMAIN s : i # j => s[i] # s[j]
      /\ \A i, j \in DOMAIN s :
           i < j => tickets[s[i]].updatedAt >= tickets[s[j]].updatedAt }

\* GET /api/tickets
GetTickets ==
  /\ \E user \in Requesters : \E body \in FindSorted(VisibleTo(user)) :
       lastOp' = ReadOp("GET /", 200, user, 0, body)
  /\ UNCHANGED <<feedbackVars, clockVars, serviceVars, calls, req, apiKey, openai,
                 lastEnhance, tickets, timers>>

\* GET /api/tickets/:id
GetTicketById ==
  /\ \E user \in Requesters : \E id \in TicketIds :
       IF id \notin DOMAIN tickets
       THEN lastOp' = ReadOp("GET /:id", 404, user, id, <<>>)
       ELSE IF ~MayUpdate(tickets[id], user)
       THEN lastOp' = ReadOp("GET /:id", 401, user, id, <<>>)
       ELSE lastOp' = ReadOp("GET /:id", 200, user, id, <<id>>)
  /\ UNCHANGED <<feedbackVars, clockVars, serviceVars, calls, req, apiKey, openai,
                 lastEnhance, tickets, timers>>

AddMessageBy(users) == AddMessageWith(users, TicketMessages \cup {<<>>}, MaxMessages)

AddMessage == AddMessageBy(TicketUsers)

\* one ticket's thread: the owner sends messages with distinct texts
MaxThread == 3

ThreadAddMessage == AddMessageWith({"u1"}, {w_hello, w_pills}, MaxThread)

(***************************************************************************)
(* aiService.js: the feedback store                                        *)
(***************************************************************************)
\* identifiers are strings; the key is built by concatenation, so they are
\* kept as character sequences
id_a == <<"a">>
id_ab == <<"a", ":", "b">>
id_c == <<"c">>
id_bc == <<"b", ":", "c">>

FeedbackUsers == {id_a, id_ab}

FeedbackMessages == {id_c, id_bc}

\* feedbackText, '' when the argument is omitted
FeedbackTexts == {"", "too slow"}

MaxFeedback == 3

\* const feedbackKey = `${userId}:${messageId}`
FeedbackKey(userId, messageId) == userId \o <<":">> \o messageId

\* the value recordFeedback stores
FeedbackRecord(userId, messageId, helpful, feedbackText, t) ==
  [ userId       |-> userId,
    messageId    |-> messageId,
    helpful      |-> helpful,
    feedbackText |-> feedbackText,
    timestamp    |-> t ]

\* the store written only when the key is new
RecordFeedback_KeepFirst(store, userId, messageId, helpful, feedbackText, t) ==
  LET feedbackKey == FeedbackKey(userId, messageId)
  IN  [ store    |-> [k \in DOMAIN store \cup {feedbackKey} |->
                        IF k \in DOMAIN store THEN store[k]
                        ELSE FeedbackRecord(userId, messageId, helpful, feedbackText, t)],
        returned |-> TRUE ]

\* recordFeedback(userId, messageId, helpful, feedbackText) at time t:
\* feedbackStore.set(feedbackKey, {...}) and the value returned.  Building the
\* key from strings and Map.set do not throw, so the catch is not entered.
RecordFeedback(store, userId, messageId, helpful, feedbackText, t) ==
  LET feedbackKey == FeedbackKey(userId, messageId)
  IN  [ store    |-> [k \in DOMAIN store \cup {feedbackKey} |->
                        IF k = feedbackKey
                        THEN FeedbackRecord(userId, messageId, helpful, feedbackText, t)
                        ELSE store[k]],
        returned |-> TRUE ]

\* helpfulPercentage is a floating-point quotient; it is kept as the exact
\* fraction num/den
Percentage(helpfulCount, feedbackCount) ==
  IF feedbackCount > 0
  THEN [num |-> helpfulCount * 100, den |-> feedbackCount]
  ELSE [num |-> 0, den |-> 1]

\* analyzeFeedback()
AnalyzeFeedback(store) ==
  LET feedbackCount == Cardinality(DOMAIN store)
      helpfulCount  == Cardinality({ k \in DOMAIN store : store[k].helpful })
  IN  [ feedbackCount     |-> feedbackCount,
        helpfulCount      |-> helpfulCount,
        helpfulPercentage |-> Percentage(helpfulCount, feedbackCount) ]

\* a caller records feedback
Record ==
  /\ Len(feedbackLog) < MaxFeedback
  /\ \E userId \in FeedbackUsers : \E messageId \in FeedbackMessages :
     \E helpful \in BOOLEAN : \E feedbackText \in FeedbackTexts :
       LET call == FeedbackRecord(userId, messageId, helpful, feedbackText, now)
       IN  \E r \in {RecordFeedback(feedbackStore, userId, messageId, helpful, feedbackText, now)} :
             /\ feedbackStore' = r.store
             /\ lastFeedback' = << [call |-> call, returned |-> r.returned] >>
             /\ feedbackLog' = Append(feedbackLog, call)
  /\ lastAnalysis' = <<>>
  /\ UNCHANGED <<clockVars, serviceVars, calls, req, apiKey, openai, lastEnhance, ticketVars>>

\* the daily interval callback, or any caller, summarizes the store
Analyze ==
  /\ lastAnalysis = <<>>
  /\ lastAnalysis' = << AnalyzeFeedback(feedbackStore) >>
  /\ UNCHANGED <<clockVars, serviceVars, calls, req, apiKey, openai, lastEnhance, ticketVars,
                 feedbackStore, feedbackLog, lastFeedback>>

(***************************************************************************)
(* Specifications                                                          *)
(***************************************************************************)
InitCommon ==
  /\ now = 0
  /\ nextSweep = SweepInterval
  /\ calls = 0
  /\ lastGen = <<>>
  /\ lastSweep = <<>>
  /\ lastEnhance = <<>>
  /\ tickets = <<>>
  /\ timers = <<>>
  /\ lastOp = <<>>
  /\ feedbackStore = EmptyStore
  /\ feedbackLog = <<>>
  /\ lastFeedback = <<>>
  /\ lastAnalysis = <<>>

\* the response pipeline applied to one message
InitAI ==
  /\ InitCommon
  /\ conversationContexts = EmptyStore
  /\ apiKey = NoKey
  /\ openai = LoadGptService(apiKey).openai
  /\ req \in { <<a>> : a \in ValidArgs }

NextAI == AIGenerate

SpecAI == InitAI /\ [][NextAI]_vars

\* the context store under calls, passing time and sweeps
InitCtx ==
  /\ InitCommon
  /\ conversationContexts \in { BurstStore(k) : k \in InitialBursts }
  /\ apiKey = NoKey
  /\ openai = LoadGptService(apiKey).openai
  /\ req = <<>>

NextCtx == CtxGenerate \/ Tick \/ Sweep

SpecCtx == InitCtx /\ [][NextCtx]_vars

\* enhanceResponseWithGpt applied to one templated response
InitGpt ==
  /\ InitCommon
  /\ conversationContexts = EmptyStore
  /\ apiKey \in ApiKeys
  /\ openai = LoadGptService(apiKey).openai
  /\ req \in { << [basicResponse |-> b] >> : b \in BasicResponses }

NextGpt == Enhance

SpecGpt == InitGpt /\ [][NextGpt]_vars

\* the ticket routes and their delayed AI-reply callbacks
InitTickets ==
  /\ InitCommon
  /\ conversationContexts = EmptyStore
  /\ apiKey \in {NoKey, ValidKey}
  /\ openai = LoadGptService(apiKey).openai
  /\ req = <<>>

NextTickets ==
  CreateTicket \/ CreateCallback \/ UpdateTicket \/ AddMessage \/ MessageCallback

SpecTickets == InitTickets /\ [][NextTickets]_vars

\* one ticket, created by u1 with its AI-reply callback still pending, under
\* the owner's add-message requests and the delayed callbacks
InitThread ==
  /\ InitCommon
  /\ conversationContexts = EmptyStore
  /\ apiKey \in {NoKey, ValidKey}
  /\ openai = LoadGptService(apiKey).openai
  /\ req = <<>>

ThreadCreate ==
  /\ tickets = <<>>
  /\ tickets' = << NewTicket("Help", w_hello, "general", Undefined, "u1", now) >>
  /\ timers' = << Timer("create", 1, w_hello, "general", "u1") >>
  /\ lastOp' = Http("POST /", 200, "u1", 1)
  /\ UNCHANGED <<feedbackVars, clockVars, serviceVars, calls, req, apiKey, openai, lastEnhance>>

NextThread == ThreadCreate \/ ThreadAddMessage \/ CreateCallback \/ MessageCallback

SpecThread == InitThread /\ [][NextThread]_vars

\* the owner's tickets, a provider's updates and assignments, and the reads
\* of every user
NextAccess ==
  CreateTicket \/ UpdateTicketWith({"p1"}, {Undefined, "u2"}) \/ GetTickets \/ GetTicketById

SpecAccess == InitTickets /\ [][NextAccess]_vars

\* one ticket of u1 under the update and add-message requests of every user,
\* a provider or admin assigning it to nobody or to the other patient
NextWrites ==
  \/ ThreadCreate
  \/ UpdateTicketWith(Requesters, {Undefined, "u2"})
  \/ AddMessageWith(Requesters, {w_hello, <<>>}, MaxMessages)

SpecWrites == InitThread /\ [][NextWrites]_vars

\* the feedback store under record and summary calls
InitFeedback ==
  /\ InitCommon
  /\ conversationContexts = EmptyStore
  /\ apiKey = NoKey
  /\ openai = LoadGptService(apiKey).openai
  /\ req = <<>>

NextFeedback == Record \/ Analyze

SpecFeedback == InitFeedback /\ [][NextFeedback]_vars

(***************************************************************************)
(* Properties                                                              *)
(***************************************************************************)
\* text contains the literal piece phrase
Contains(text, phrase) ==
  \E i \in DOMAIN text : text[i].kind = "lit" /\ text[i].lit = phrase

\* the last n elements of s, in order
LastN(s, n) == IF Len(s) <= n THEN s ELSE SubSeq(s, Len(s) - n + 1, Len(s))

\* lastOp reports a callback that has run
CallbackRan == lastOp # <<>> /\ lastOp[1].op \in {"create", "message"}

\* C1: every AI-reply callback that has run, whether the remote service was
\* available, unavailable or failing, appended an AI message with non-empty
\* text to its ticket: the outcome "no AI response" is never reached.
C1_AlwaysSomeResponse ==
  CallbackRan =>
    /\ lastOp[1].appended
    /\ LET msgs == tickets[lastOp[1].ticket].messages
       IN  \E i \in DOMAIN msgs : msgs[i].isAI /\ msgs[i].content # <<>>

\* C2: enhanceResponseWithGpt never fails, and whenever the remote client is
\* unavailable or the remote call errors it returns exactly the
\* basicResponse it was given.
C2_EnhanceFallsBack ==
  lastEnhance # <<>> =>
    LET e == lastEnhance[1]
    IN  /\ ~e.result.threw
        /\ (~e.available \/ e.outcome \in {"rejected", "no_content"})
             => e.result.value = e.basicResponse

\* C2 witness: the client was available, the remote call was rejected and the
\* templated text came back
C2_Witness ==
  /\ lastEnhance # <<>>
  /\ lastEnhance[1].available
  /\ lastEnhance[1].outcome = "rejected"
  /\ lastEnhance[1].result.value = lastEnhance[1].basicResponse
  /\ lastEnhance[1].basicResponse # <<>>

\* C3: in every reachable state every user's conversation history holds at
\* most 10 entries.
C3_HistoryBounded ==
  \A u \in DOMAIN conversationContexts :
    Len(conversationContexts[u].history) <= 10

\* C3 witness: u1's history is full although two entries were pushed after
\* the initial burst, which had left at least nine
C3_Witness ==
  /\ "u1" \in DOMAIN conversationContexts
  /\ Len(conversationContexts["u1"].history) = 10
  /\ conversationContexts["u1"].history[9].timestamp > 0
  /\ conversationContexts["u1"].history[1].timestamp = 0

\* C4: a call of updateConversationContext(userId, entry) leaves that user
\* with the last 10 elements of (previous history followed by entry), in
\* order, sets the user's last-interaction time to the current time and leaves
\* every other user's context as it was.
C4_UpdateAppendsAndTrims ==
  [][ calls' = calls + 1 =>
        LET u     == lastGen'[1].args.userId
            entry == ContextEntry(lastGen'[1], now)
            old   == IF u \in DOMAIN conversationContexts
                     THEN conversationContexts[u].history ELSE <<>>
        IN  /\ DOMAIN conversationContexts' = DOMAIN conversationContexts \cup {u}
            /\ conversationContexts'[u].history = LastN(old \o <<entry>>, 10)
            /\ conversationContexts'[u].lastInteraction = now
            /\ \A v \in DOMAIN conversationContexts \ {u} :
                 conversationContexts'[v] = conversationContexts[v] ]_vars

\* C4 witness: u1's full history took a new entry at a later time and lost its
\* oldest one, while u2 has a context of its own
C4_Witness ==
  /\ {"u1", "u2"} \subseteq DOMAIN conversationContexts
  /\ Len(conversationContexts["u1"].history) = 10
  /\ conversationContexts["u1"].history[9].timestamp > 0
  /\ conversationContexts["u1"].lastInteraction = now
  /\ lastGen # <<>> /\ lastGen[1].args.userId = "u1"

\* a step of the cleanup callback
SweepStep == nextSweep' # nextSweep

\* C5: a sweep removes exactly the users whose last interaction is more than
\* 30 minutes before the sweep time and leaves every other user's history and
\* last-interaction time unchanged.
C5_SweepRemovesExactlyExpired ==
  [][ SweepStep =>
        /\ \A u \in DOMAIN conversationContexts :
             (u \notin DOMAIN conversationContexts')
               <=> (conversationContexts[u].lastInteraction + 30 < now)
        /\ \A u \in DOMAIN conversationContexts' :
             /\ u \in DOMAIN conversationContexts
             /\ conversationContexts'[u] = conversationContexts[u] ]_vars

\* C5 witness: the last sweep removed a user and kept another one whose last
\* interaction was exactly 30 minutes old
C5_Witness ==
  /\ lastSweep # <<>>
  /\ lastSweep[1].removed # {}
  /\ \E u \in DOMAIN conversationContexts :
       conversationContexts[u].lastInteraction + 30 = lastSweep[1].time

\* C6 as claimed: immediately after any sweep the store contains no history
\* entry whose timestamp is more than 30 minutes older than the sweep time.
C6_NoOldEntryAfterSweep ==
  [][ SweepStep =>
        \A u \in DOMAIN conversationContexts' :
          \A i \in DOMAIN conversationContexts'[u].history :
            now - conversationContexts'[u].history[i].timestamp <= 30 ]_vars

\* C6 amended: immediately after any sweep every user left in the store has a
\* last-interaction time at most 30 minutes before the sweep time (a history
\* entry of such a user can be older).
C6_NoExpiredUserAfterSweep ==
  [][ SweepStep =>
        \A u \in DOMAIN conversationContexts' :
          now - conversationContexts'[u].lastInteraction <= 30 ]_vars

\* C6 witness: the last sweep kept a user one of whose entries was more than
\* 30 minutes old at the time of the sweep
C6_Witness ==
  /\ lastSweep # <<>>
  /\ \E u \in DOMAIN conversationContexts :
       /\ conversationContexts[u].lastInteraction <= lastSweep[1].time
       /\ \E i \in DOMAIN conversationContexts[u].history :
            lastSweep[1].time - conversationContexts[u].history[i].timestamp > 30

\* the eight urgency keywords
C7_Keywords ==
  { <<"e","m","e","r","g","e","n","c","y">>,
    <<"u","r","g","e","n","t">>,
    <<"i","m","m","e","d","i","a","t","e","l","y">>,
    <<"s","e","v","e","r","e">>,
    <<"c","r","i","t","i","c","a","l">>,
    <<"h","e","l","p">>,
    <<"n","o","w">>,
    <<"a","s","a","p">> }

\* C7: isUrgent is true iff (the sentiment label is negative and the score
\* is below -0.5) or some token is one of the eight urgency keywords.
C7_UrgentIff ==
  lastGen # <<>> =>
    LET s == lastGen[1].analysis.sentiment
        t == lastGen[1].analysis.tokens
    IN  s.isUrgent <=>
          \/ s.label = "negative" /\ s.score # NaN /\ s.score < -50
          \/ \E i \in DOMAIN t : t[i] \in C7_Keywords

\* C7 witness: a message with an urgency keyword and a positive score is urgent
C7_Witness ==
  /\ lastGen # <<>>
  /\ lastGen[1].analysis.sentiment.isUrgent
  /\ lastGen[1].analysis.sentiment.score = 25
  /\ \E i \in DOMAIN lastGen[1].analysis.tokens :
       lastGen[1].analysis.tokens[i] = w_emergency

\* C8: the label is positive iff score > 0.2, negative iff score < -0.2 and
\* neutral otherwise, so that the boundary scores -0.2 and 0.2 and every score
\* between them are neutral.
C8_LabelOfScore ==
  lastGen # <<>> =>
    LET s == lastGen[1].analysis.sentiment
        isNumber == s.score # NaN
    IN  /\ s.label \in {"positive", "negative", "neutral"}
        /\ (s.label = "positive") <=> (isNumber /\ s.score > 20)
        /\ (s.label = "negative") <=> (isNumber /\ s.score < -20)
        /\ (isNumber /\ s.score >= -20 /\ s.score <= 20) => s.label = "neutral"

\* C8 witness: a score of exactly 0.2 was labelled neutral
C8_Witness ==
  /\ lastGen # <<>>
  /\ lastGen[1].analysis.sentiment.score = 20
  /\ lastGen[1].analysis.sentiment.label = "neutral"

\* the bucket the fixed priority asks for
C9_Expected(g) ==
  IF g.responseCategory = "emergency" \/ g.analysis.sentiment.isUrgent THEN "emergency"
  ELSE IF g.analysis.entities.symptoms # <<>> THEN "symptoms"
  ELSE IF g.analysis.entities.medicalConditions # <<>> THEN "medicalConditions"
  ELSE IF g.responseCategory \in BaseBuckets THEN g.responseCategory
  ELSE "other"

\* the prefixes a response can carry
C9_Prefixes == {"", UrgentNotice} \cup Range(empathyPhrases)

\* C9: the template bucket is selected by the fixed priority emergency/urgent,
\* then symptoms, then medical conditions, then the response category, then
\* 'other', and the text built is an optional prefix followed by one of the
\* exactly two variants of the selected bucket.
C9_BucketPriority ==
  lastGen # <<>> =>
    LET g == lastGen[1]
        variants == Responses(g.analysis, g.bucket)
    IN  /\ g.bucket = C9_Expected(g)
        /\ Len(variants) = 2
        /\ \E p \in C9_Prefixes : \E v \in 1..2 :
             g.composed = (IF p = "" THEN <<>> ELSE <<Lit(p)>>) \o variants[v]
        /\ g.userLanguage = "en" => g.response = g.composed

\* C9 witness: a message with a symptom and a condition, not urgent, classified
\* as billing, was answered from the symptoms bucket
C9_Witness ==
  /\ lastGen # <<>>
  /\ lastGen[1].bucket = "symptoms"
  /\ lastGen[1].responseCategory = "billing"
  /\ lastGen[1].analysis.entities.medicalConditions # <<>>
  /\ ~lastGen[1].analysis.sentiment.isUrgent

\* C10: for every message answered in English whose analysis has isUrgent
\* true, the selected bucket is 'emergency' and the response text contains '911'.
C10_UrgentGets911 ==
  lastGen # <<>> =>
    LET g == lastGen[1]
    IN  (g.userLanguage = "en" /\ g.analysis.sentiment.isUrgent)
          => (g.bucket = "emergency" /\ Contains(g.response, "911"))

\* C10 witness: "Help NOW!", classified as billing, was answered in English
\* from the emergency bucket with a text that names 911
C10_Witness ==
  /\ lastGen # <<>>
  /\ lastGen[1].userLanguage = "en"
  /\ lastGen[1].analysis.sentiment.isUrgent
  /\ lastGen[1].analysis.tokens = << <<"h","e","l","p">>, <<"n","o","w">> >>
  /\ lastGen[1].responseCategory = "billing"
  /\ lastGen[1].bucket = "emergency"
  /\ Contains(lastGen[1].response, "911")

\* the three empathy phrases and the urgency notice, as pieces of text
C11_Empathy ==
  { Lit("I understand this may be frustrating. "),
    Lit("I'm sorry to hear you're having difficulties. "),
    Lit("I appreciate your patience with this matter. ") }

C11_Notice ==
  Lit("I notice this seems urgent. I've flagged your message for priority review by our healthcare team. ")

\* C11: the response starts with one of the three empathy phrases exactly when
\* the sentiment label is negative and isUrgent is false, starts with the
\* urgency notice exactly when isUrgent is true, never carries both prefixes
\* and carries none otherwise.
C11_PrefixBySentiment ==
  lastGen # <<>> =>
    LET g == lastGen[1]
        s == g.analysis.sentiment
        text == g.composed
        prefixesIn == { i \in DOMAIN text : text[i] \in C11_Empathy \cup {C11_Notice} }
    IN  /\ text # <<>>
        /\ (text[1] \in C11_Empathy) <=> (s.label = "negative" /\ ~s.isUrgent)
        /\ (text[1] = C11_Notice) <=> s.isUrgent
        /\ prefixesIn \subseteq {1}
        /\ g.userLanguage = "en" => g.response = text

\* C11 witness: a message scored -0.6 that carries an urgent term got the
\* urgency notice and no empathy phrase
C11_Witness ==
  /\ lastGen # <<>>
  /\ lastGen[1].analysis.sentiment.label = "negative"
  /\ lastGen[1].analysis.sentiment.isUrgent
  /\ lastGen[1].analysis.sentiment.score = -60
  /\ lastGen[1].composed[1] = C11_Notice
  /\ lastGen[1].userLanguage = "en"

\* the keys under which the store holds a record of the pair (userId, messageId)
RecordsOf(userId, messageId) ==
  { k \in DOMAIN feedbackStore :
      feedbackStore[k].userId = userId /\ feedbackStore[k].messageId = messageId }

\* the positions in the log of the calls made for the pair
CallsOf(userId, messageId) ==
  { i \in DOMAIN feedbackLog :
      feedbackLog[i].userId = userId /\ feedbackLog[i].messageId = messageId }

\* the most recent call made for the pair
LatestCall(userId, messageId) ==
  feedbackLog[CHOOSE i \in CallsOf(userId, messageId) :
                \A j \in CallsOf(userId, messageId) : j <= i]

\* the pairs recorded so far
PairsRecorded ==
  { <<feedbackLog[i].userId, feedbackLog[i].messageId>> : i \in DOMAIN feedbackLog }

\* C12: recordFeedback returns true and overwrites any prior record of the
\* same (userId, messageId) pair: the store holds at most one record per pair,
\* a record it holds carries the helpful flag and text of the most recent call
\* for its pair, and the pair of the last call has its record.
C12_RecordOverwrites ==
  /\ \A userId \in FeedbackUsers : \A messageId \in FeedbackMessages :
       /\ Cardinality(RecordsOf(userId, messageId)) <= 1
       /\ \A k \in RecordsOf(userId, messageId) :
            /\ CallsOf(userId, messageId) # {}
            /\ feedbackStore[k].helpful = LatestCall(userId, messageId).helpful
            /\ feedbackStore[k].feedbackText = LatestCall(userId, messageId).feedbackText
  /\ lastFeedback # <<>> =>
       /\ lastFeedback[1].returned = TRUE
       /\ \E k \in RecordsOf(lastFeedback[1].call.userId, lastFeedback[1].call.messageId) :
            /\ feedbackStore[k].helpful = lastFeedback[1].call.helpful
            /\ feedbackStore[k].feedbackText = lastFeedback[1].call.feedbackText

\* C12 witness: a pair was recorded unhelpful with a text and then helpful
\* without one, and the store holds the second record only
C12_Witness ==
  /\ Len(feedbackLog) = 2
  /\ feedbackLog[1] = FeedbackRecord(id_a, id_c, FALSE, "too slow", 0)
  /\ feedbackLog[2] = FeedbackRecord(id_a, id_c, TRUE, "", 0)
  /\ Cardinality(DOMAIN feedbackStore) = 1
  /\ \A k \in DOMAIN feedbackStore : feedbackStore[k].helpful /\ feedbackStore[k].feedbackText = ""

\* the recorded pairs whose most recent call was helpful
HelpfulPairs == { p \in PairsRecorded : LatestCall(p[1], p[2]).helpful }

\* C13: analyzeFeedback returns a count equal to the number of distinct
\* (userId, messageId) pairs recorded, a helpfulCount equal to the number of
\* those pairs whose latest flag is helpful, and helpfulPercentage equal to
\* helpfulCount / count * 100, or 0 when nothing was recorded.
C13_SummaryCountsPairs ==
  lastAnalysis # <<>> =>
    LET r     == lastAnalysis[1]
        count == Cardinality(PairsRecorded)
        good  == Cardinality(HelpfulPairs)
    IN  /\ r.feedbackCount = count
        /\ r.helpfulCount = good
        /\ IF count = 0
           THEN r.helpfulPercentage.num = 0
           ELSE r.helpfulPercentage.num * count = good * 100 * r.helpfulPercentage.den


\* the last element of a non-empty sequence
LastOf(s) == s[Len(s)]

\* the step was an accepted add-message request on ticket id
AddMessageAccepted(id) ==
  /\ lastOp' # <<>>
  /\ lastOp'[1].op = "POST /:id/message"
  /\ lastOp'[1].status = 200
  /\ lastOp'[1].ticket = id

\* C14: every accepted add-message request writes its user message at the end
\* of the persisted list as it stands when the request is handled, so user
\* messages are persisted in handling order, and the AI reply is left to a
\* callback that runs later (its timer is queued by the same step)
C14_UserMessagesInHandlingOrder ==
  [][ \A id \in DOMAIN tickets' :
        AddMessageAccepted(id) =>
          /\ id \in DOMAIN tickets
          /\ Len(tickets'[id].messages) = Len(tickets[id].messages) + 1
          /\ SubSeq(tickets'[id].messages, 1, Len(tickets[id].messages))
               = tickets[id].messages
          /\ ~LastOf(tickets'[id].messages).isAI
          /\ LastOf(tickets'[id].messages).sender = lastOp'[1].user
          /\ Len(timers') = Len(timers) + 1
          /\ LastOf(timers').kind = "message"
          /\ UserText(LastOf(timers').content) = LastOf(tickets'[id].messages).content ]_vars

\* the persisted order user-1, user-2, AI-reply-1: the second user message is
\* stored ahead of the reply to the first, whose callback has just run, while
\* the callbacks of the second message and of the creation are still pending
C14_Witness ==
  /\ Len(tickets) = 1
  /\ Len(tickets[1].messages) = 4
  /\ tickets[1].messages[2].content = UserText(w_pills)
  /\ ~tickets[1].messages[2].isAI
  /\ tickets[1].messages[3].content = UserText(w_hello)
  /\ ~tickets[1].messages[3].isAI
  /\ tickets[1].messages[4].isAI
  /\ lastOp = Op("message", 0, "u1", 1, TRUE)
  /\ timers = << Timer("create", 1, w_hello, "general", "u1"),
                 Timer("message", 1, w_hello, "general", "u1") >>


\* s is an initial segment of t
IsPrefix(s, t) == Len(s) <= Len(t) /\ SubSeq(t, 1, Len(s)) = s

\* C15: whatever the interleaving of add-message requests and delayed
\* callbacks on a ticket, each saving from the copy it loaded, every step
\* leaves the persisted message list as it was or extends it at the end:
\* nothing persisted is removed, replaced or reordered
C15_MessagesOnlyAppended ==
  [][ /\ Len(tickets) <= Len(tickets')
      /\ \A id \in DOMAIN tickets :
           IsPrefix(tickets[id].messages, tickets'[id].messages) ]_vars

\* the creation's callback, holding the copy with the description alone, has
\* just saved after two later user messages were persisted
C15_Witness ==
  /\ Len(tickets) = 1
  /\ lastOp = Op("create", 0, "u1", 1, TRUE)
  /\ Len(tickets[1].messages) = 4
  /\ ~tickets[1].messages[2].isAI
  /\ ~tickets[1].messages[3].isAI
  /\ tickets[1].messages[4].isAI


\* C16: after any sequence of create, update and add-message requests (and
\* of their callbacks), every persisted ticket's status is one of open,
\* in_progress, resolved, closed
C16_StatusInEnum ==
  \A id \in DOMAIN tickets : tickets[id].status \in StatusEnum

\* a closed ticket whose owner's add-message request, which sets the status
\* to 'reopened' before saving, has just been refused by the save
C16_Witness ==
  /\ Len(tickets) = 1
  /\ tickets[1].status = "closed"
  /\ lastOp = Http("POST /:id/message", 500, "u1", 1)


\* the condition on the credential read at load: defined, starting with
\* 'sk-', at least 20 characters long, not containing the placeholder text
CredentialAccepted ==
  /\ apiKey.defined
  /\ Len(apiKey.value) >= 3
  /\ apiKey.value[1] = "s" /\ apiKey.value[2] = "k" /\ apiKey.value[3] = "-"
  /\ Len(apiKey.value) >= 20
  /\ \A i \in 1..Len(apiKey.value) :
       \E j \in 1..Len(Placeholder) :
         i + j - 1 > Len(apiKey.value) \/ apiKey.value[i + j - 1] # Placeholder[j]

\* C17: in every state of the process the remote feature is enabled exactly
\* when the credential read at load is accepted, no error left the startup
\* whatever the credential, and isGptAvailable() answers that same value
C17_EnabledIffCredentialAccepted ==
  /\ openai <=> CredentialAccepted
  /\ ~LoadGptService(apiKey).raised
  /\ isGptAvailable = LoadGptService(apiKey).openai

\* an enhancement call has been served in a process started with a key that
\* has the prefix and the length but contains the placeholder text
C17_Witness ==
  /\ apiKey.defined
  /\ StartsWith(apiKey.value, <<"s","k","-">>)
  /\ Len(apiKey.value) >= MinKeyLength
  /\ Includes(apiKey.value, Placeholder)
  /\ ~isGptAvailable
  /\ lastEnhance # <<>>


\* list holds, in order and with repetitions, the tokens at the positions of
\* tokens marked in mask, and nothing else
IsMatchingSubsequence(list, tokens, mask) ==
  LET positions == { i \in DOMAIN tokens : mask[i] }
  IN  /\ Len(list) = Cardinality(positions)
      /\ \A k \in DOMAIN list :
           \E p \in positions :
             /\ Cardinality({ q \in positions : q < p }) = k - 1
             /\ list[k] = tokens[p]

\* the tokens of the messages analysed, and for each the patterns it matches
AnalysedTokens ==
  UNION { { Tokenize(ToLowerCase(m))[i] : i \in DOMAIN Tokenize(ToLowerCase(m)) } :
          m \in Messages }

KindsOfToken ==
  [ t \in AnalysedTokens |->
      [ dates             |-> IsDate(t),
        medications       |-> IsMedication(t),
        symptoms          |-> IsSymptom(t),
        medicalConditions |-> IsMedicalCondition(t),
        bodyParts         |-> IsBodyPart(t) ] ]

EntityKinds == {"dates", "medications", "symptoms", "medicalConditions", "bodyParts"}

\* C18: for the tokens of every analysed message, each of the five entity
\* lists is the order-preserving subsequence of the tokens that match its
\* kind's pattern, duplicates kept; a token matching several patterns is in
\* each of their lists, and when no token matches any pattern all five lists
\* are empty
C18_EntitiesAreMatchingSubsequences ==
  lastGen # <<>> =>
    LET tokens   == lastGen[1].analysis.tokens
        entities == lastGen[1].analysis.entities
    IN  /\ DOMAIN entities = EntityKinds
        /\ \A i \in DOMAIN tokens : tokens[i] \in AnalysedTokens
        /\ \A kind \in EntityKinds :
             IsMatchingSubsequence(entities[kind], tokens,
                                   [i \in DOMAIN tokens |-> KindsOfToken[tokens[i]][kind]])
        /\ (\A i \in DOMAIN tokens : \A kind \in EntityKinds : ~KindsOfToken[tokens[i]][kind])
             => \A kind \in EntityKinds : entities[kind] = <<>>

\* "heart heart" was analysed: the token is listed twice as a medical
\* condition and twice as a body part, and in no other list
C18_Witness ==
  /\ lastGen # <<>>
  /\ lastGen[1].analysis.tokens = <<w_heart, w_heart>>
  /\ lastGen[1].analysis.entities.medicalConditions = <<w_heart, w_heart>>
  /\ lastGen[1].analysis.entities.bodyParts = <<w_heart, w_heart>>
  /\ lastGen[1].analysis.entities.symptoms = <<>>
  /\ lastGen[1].analysis.entities.medications = <<>>


\* C19: a response taken from the 'prescription' bucket, whichever of the two
\* variants was drawn, contains the phrase 'healthcare provider'; it carries
\* the extracted medication tokens joined by ', ' when there are any, and
\* otherwise the generic wording of its variant ('prescription' in the first,
\* 'your medication' in the second)
C19_PrescriptionResponse ==
  lastGen # <<>> =>
    LET g       == lastGen[1]
        meds    == g.analysis.entities.medications
        text    == g.composed
        generic == IF g.variant = 1 THEN "prescription" ELSE "your medication"
    IN  g.bucket = "prescription" =>
          /\ Contains(text, "healthcare provider")
          /\ g.userLanguage = "en" => g.response = text
          /\ IF meds # <<>>
             THEN /\ \E i \in DOMAIN text : text[i] = Join(meds, ", ")
                  /\ ~Contains(text, generic)
             ELSE /\ Contains(text, generic)
                  /\ \A i \in DOMAIN text : text[i].kind # "join"

\* "pills pills" with category prescription was answered in English from the
\* second prescription variant, which names both medication tokens
C19_Witness ==
  /\ lastGen # <<>>
  /\ lastGen[1].bucket = "prescription"
  /\ lastGen[1].variant = 2
  /\ lastGen[1].userLanguage = "en"
  /\ lastGen[1].analysis.entities.medications = <<w_pills, w_pills>>
  /\ \E i \in DOMAIN lastGen[1].response :
       lastGen[1].response[i] = Join(<<w_pills, w_pills>>, ", ")
  /\ Contains(lastGen[1].response, "healthcare provider")


\* lastOp reports a read by a user who is neither healthcare provider nor admin
PatientRead ==
  /\ lastOp # <<>>
  /\ lastOp[1].op \in {"GET /", "GET /:id"}
  /\ RoleOf[lastOp[1].user] \notin {"healthcare_provider", "admin"}

\* C20: a user who is neither healthcare provider nor admin reads only
\* tickets they own or are assigned to: the list holds only tickets the
\* requester owns, and get-by-id of a stored ticket the requester neither
\* owns nor is assigned to answers 401 with no ticket in the body
C20_PatientsReadOwnOrAssigned ==
  PatientRead =>
    LET r == lastOp[1]
    IN  /\ \A k \in DOMAIN r.body :
             /\ r.body[k] \in DOMAIN tickets
             /\ tickets[r.body[k]].user = r.user \/ tickets[r.body[k]].assignedTo = r.user
        /\ r.op = "GET /" => \A k \in DOMAIN r.body : tickets[r.body[k]].user = r.user
        /\ ( /\ r.op = "GET /:id"
             /\ r.ticket \in DOMAIN tickets
             /\ tickets[r.ticket].user # r.user
             /\ tickets[r.ticket].assignedTo # r.user )
             => (r.status = 401 /\ r.body = <<>>)

\* u2 asked for u1's ticket, which is assigned to nobody, and got 401 with
\* no ticket in the body
C20_Witness ==
  /\ PatientRead
  /\ lastOp[1].op = "GET /:id"
  /\ lastOp[1].user = "u2"
  /\ lastOp[1].ticket = 1
  /\ Len(tickets) >= 1
  /\ tickets[1].user = "u1"
  /\ tickets[1].assignedTo = Undefined
  /\ lastOp[1].status = 401
  /\ lastOp[1].body = <<>>


\* the positions of the AI messages of a message list
AIPositions(messages) == { i \in DOMAIN messages : messages[i].isAI }

\* C21: in every state, a persisted ticket's aiResponded flag is true exactly
\* when its message list holds an AI message, and when the flag is true the
\* cached aiResponse is the content of the first AI message of the list
C21_FlagMatchesMessages ==
  \A id \in DOMAIN tickets :
    LET t  == tickets[id]
        ai == AIPositions(t.messages)
    IN  /\ t.aiResponded <=> ai # {}
        /\ t.aiResponded =>
             \E first \in ai :
               /\ \A i \in ai : first <= i
               /\ t.aiResponse = t.messages[first].content


\* the step was an add-message request on ticket id that passed the content,
\* existence and authorization tests
AddMessageAdmitted(id) ==
  /\ lastOp' # <<>>
  /\ lastOp'[1].op = "POST /:id/message"
  /\ lastOp'[1].ticket = id
  /\ lastOp'[1].status \notin {400, 404, 401}

\* C22: an admitted add-message request on a ticket whose status is closed
\* succeeds: the user message is persisted at the end of the list, the
\* persisted status is no longer closed, and a callback is scheduled
C22_ClosedTicketAcceptsMessage ==
  [][ \A id \in DOMAIN tickets :
        (tickets[id].status = "closed" /\ AddMessageAdmitted(id)) =>
          /\ lastOp'[1].status = 200
          /\ Len(tickets'[id].messages) = Len(tickets[id].messages) + 1
          /\ ~LastOf(tickets'[id].messages).isAI
          /\ tickets'[id].status # "closed"
          /\ Len(timers') = Len(timers) + 1 ]_vars


\* the requester of the step's request is the owner of stored ticket id, the
\* user it is assigned to, or an admin
OwnerAssignedOrAdmin(id) ==
  \/ tickets[id].user = lastOp'[1].user
  \/ tickets[id].assignedTo = lastOp'[1].user
  \/ RoleOf[lastOp'[1].user] = "admin"

C24_UpdateFrame ==
  [][ (lastOp' # <<>> /\ lastOp'[1].op = "PUT /:id") =>
        LET r == lastOp'[1]
        IN  /\ Len(tickets') = Len(tickets)
            /\ \A id \in DOMAIN tickets :
                 /\ tickets'[id].title = tickets[id].title
                 /\ tickets'[id].description = tickets[id].description
                 /\ tickets'[id].category = tickets[id].category
                 /\ tickets'[id].user = tickets[id].user
                 /\ tickets'[id].messages = tickets[id].messages
                 /\ tickets'[id].aiResponded = tickets[id].aiResponded
                 /\ tickets'[id].aiResponse = tickets[id].aiResponse
                 /\ id # r.ticket => tickets'[id] = tickets[id]
                 /\ tickets'[id].assignedTo # tickets[id].assignedTo
                      => RoleOf[r.user] \in {"healthcare_provider", "admin"}
            /\ timers' = timers
            /\ ( /\ r.ticket \in DOMAIN tickets
                 /\ tickets[r.ticket].user # r.user
                 /\ tickets[r.ticket].assignedTo # r.user
                 /\ RoleOf[r.user] \notin {"healthcare_provider", "admin"} )
                 => (r.status = 401 /\ tickets' = tickets) ]_vars

\* the patient the ticket is assigned to has had an update accepted on the
\* closed, low-priority ticket: the owner and the single message are as
\* created
C24_Witness ==
  /\ lastOp = Http("PUT /:id", 200, "u2", 1)
  /\ Len(tickets) = 1
  /\ tickets[1].user = "u1"
  /\ tickets[1].assignedTo = "u2"
  /\ tickets[1].status = "closed"
  /\ tickets[1].priority = "low"
  /\ Len(tickets[1].messages) = 1


\* C25: when the message contains a date written with separators (the date
\* pattern matches in the message text), the dates list returned by
\* analyzeMessage is not empty and every element of it is a token the date
\* pattern matches, and a response from the appointment bucket mentions the
\* joined dates
C25_DatesExtracted ==
  lastGen # <<>> =>
    LET g     == lastGen[1]
        dates == g.analysis.entities.dates
    IN  MatchesDate(ToLowerCase(g.args.message)) =>
          /\ dates # <<>>
          /\ \A i \in DOMAIN dates : MatchesDate(dates[i])
          /\ g.bucket = "appointment" =>
               \E k \in DOMAIN g.composed : g.composed[k] = Join(dates, ", ")


\* the stored conversation history of user u (none stored: empty)
HistoryOf(u) ==
  IF u \in DOMAIN conversationContexts THEN conversationContexts[u].history ELSE <<>>

\* the calls compared between users: same message, category and language
ComparedCalls(u) ==
  { Args(m, 0, Undefined, c, u, l, "en") :
      m \in {w_hello, w_pills}, c \in {"general", "prescription"}, l \in {"en", "es"} }

\* the responses generateAIResponse can return to a call, over its random draws
PossibleResponses(a) == { g.response : g \in Generated(a) }

\* C26: response generation is context-aware: two users whose stored
\* conversation histories differ can receive different responses, that is,
\* for some message, category and language the sets of responses the
\* service can return to the one and to the other differ
C26_ResponsesDependOnHistory ==
  \A u, v \in Users :
    HistoryOf(u) # HistoryOf(v) =>
      \E a \in ComparedCalls(u) :
        PossibleResponses(a) # PossibleResponses([a EXCEPT !.userId = v])


\* the callbacks still pending for ticket id
PendingFor(id) == { k \in DOMAIN timers : timers[k].ticket = id }

\* C27: in every state each ticket holds at most as many AI messages as
\* non-AI messages; indeed the AI messages and the callbacks still pending
\* for the ticket together never outnumber its non-AI messages, creation and
\* each accepted add-message having scheduled one callback and each callback
\* appending at most one AI message
C27_AIMessagesBounded ==
  \A id \in DOMAIN tickets :
    LET messages == tickets[id].messages
        ai       == Cardinality(AIPositions(messages))
    IN  /\ ai <= Len(messages) - ai
        /\ ai + Cardinality(PendingFor(id)) <= Len(messages) - ai

\* every callback of the ticket has run and appended: three AI messages for
\* the description and two user messages
C27_Witness ==
  /\ Len(tickets) = 1
  /\ Len(tickets[1].messages) = 6
  /\ Cardinality(AIPositions(tickets[1].messages)) = 3
  /\ timers = <<>>


\* C28: no step removes a user's context whose last interaction is at most
\* 30 minutes old, and no state holds a context whose last interaction is
\* more than 45 minutes old: a user who does not interact again is removed
\* by the first sweep that finds the context older than 30 minutes, which
\* comes within 45 minutes of the last interaction
C28_RemovedBetween30And45 ==
  [][ /\ \A u \in DOMAIN conversationContexts :
           u \notin DOMAIN conversationContexts'
             => now - conversationContexts[u].lastInteraction > 30
      /\ \A u \in DOMAIN conversationContexts' :
           now' - conversationContexts'[u].lastInteraction <= 45 ]_vars

\* the sweep at minute 45 has removed u1, whom the sweep at minute 30 had
\* kept, while u2, who interacted later, stays stored
C28_Witness ==
  /\ lastSweep # <<>>
  /\ lastSweep[1].time = 45
  /\ lastSweep[1].removed = {"u1"}
  /\ "u1" \notin DOMAIN conversationContexts
  /\ "u2" \in DOMAIN conversationContexts
  /\ now = 45


\* the records a store holds for the pair (userId, messageId)
RecordsIn(store, userId, messageId) ==
  { store[k] : k \in { j \in DOMAIN store :
                         store[j].userId = userId /\ store[j].messageId = messageId } }

\* C29: a recordFeedback call leaves the stored record of every pair other
\* than its own (userId, messageId) unchanged, whatever characters the
\* identifiers contain
C29_OtherPairsUntouched ==
  [][ feedbackLog' # feedbackLog =>
        LET call == lastFeedback'[1].call
        IN  \A userId \in FeedbackUsers : \A messageId \in FeedbackMessages :
              <<userId, messageId>> # <<call.userId, call.messageId>> =>
                RecordsIn(feedbackStore', userId, messageId)
                  = RecordsIn(feedbackStore, userId, messageId) ]_vars


\* C30: whenever generateAIResponse takes its response from the 'symptoms'
\* bucket, through the symptom-mention rule or because the response category
\* is 'symptoms', the extracted symptom list is non-empty and the response
\* carries it joined by ', '
C30_SymptomsListNonEmpty ==
  lastGen # <<>> =>
    LET g        == lastGen[1]
        symptoms == g.analysis.entities.symptoms
    IN  g.bucket = "symptoms" =>
          /\ symptoms # <<>>
          /\ \E i \in DOMAIN g.composed : g.composed[i] = Join(symptoms, ", ")

====
